---- MODULE Spec2Model ----
(***************************************************************************)
(* The slot-filling orchestration of the FinPerf conversational API:       *)
(* app/routes.py (process_query, the session store) and                    *)
(* app/orchestrator.py (orchestrate_query and the functions it calls).     *)
(*                                                                         *)
(* Text is modelled as it is in Python: a str is the sequence of its       *)
(* characters, each character a one-element TLA+ string.  The four         *)
(* non-ASCII characters of the messages are written by their code points:  *)
(* "U+2705" (check mark), "U+2753" (question mark), "U+274C" (cross mark)  *)
(* and "U+2022" (bullet).                                                  *)
(*                                                                         *)
(* A parsed JSON value is a record [t, v]: t is its type ("null", "str",   *)
(* "num", "bool", "list", "obj") and v its payload: the characters of a    *)
(* string, the digits of a number, the text of a bool, the elements of a   *)
(* list, the <<key, value>> pairs of an object in document order, <<>>     *)
(* for null.                                                               *)
(***************************************************************************)
EXTENDS Integers, Sequences, FiniteSets, TLC

VARIABLES
    sessions,   \* routes.py: sessions, session key -> ConversationState
    last,       \* what the latest request did: its inputs, calls and response
    outcomes,   \* session key -> how the latest request of that session ended
    turns,      \* number of requests handled so far
    probe,      \* the latest application of a pure function, with its arguments
    workers,    \* threadpool worker -> the request it runs and the line it is at
    heap        \* the ConversationState objects created, by identity

vars == <<sessions, last, outcomes, turns, probe, workers, heap>>

---------------------------------------------------------------------------
(* Bounds of the model.                                                    *)

\* Requests handled in one behaviour (over all sessions).
MaxTurns == 2

\* Length of the queries match_endpoint is probed with.
MaxProbeLen == 3

\* Length of the catalogues match_endpoint is probed with.
MaxProbeApis == 2

\* Length of the parameter lists of the endpoints the functions are probed with.
MaxProbeParams == 3

\* Number of key=value tokens in the texts merge_user_fix_into_state is probed with.
MaxProbeTokens == 2

---------------------------------------------------------------------------
(* Python's None and optional values.                                      *)

None == <<>>

Some(x) == <<x>>

---------------------------------------------------------------------------
(* str operations.                                                         *)

UpperAlpha ==
    <<"A", "B", "C", "D", "E", "F", "G", "H", "I", "J", "K", "L", "M",
      "N", "O", "P", "Q", "R", "S", "T", "U", "V", "W", "X", "Y", "Z">>

LowerAlpha ==
    <<"a", "b", "c", "d", "e", "f", "g", "h", "i", "j", "k", "l", "m",
      "n", "o", "p", "q", "r", "s", "t", "u", "v", "w", "x", "y", "z">>

Digits == {"0", "1", "2", "3", "4", "5", "6", "7", "8", "9"}

\* \s of the re module, for the characters the model uses.
Whitespace == {" ", "\n", "\t"}

\* \w of the re module, for ASCII text.
WordChars ==
    {UpperAlpha[i] : i \in 1..26} \cup {LowerAlpha[i] : i \in 1..26} \cup Digits \cup {"_"}

\* The lower-case letter of each upper-case letter, and the converse.
LowerOf == [c \in {UpperAlpha[i] : i \in 1..26} |->
               LowerAlpha[CHOOSE i \in 1..26 : UpperAlpha[i] = c]]

UpperOf == [c \in {LowerAlpha[i] : i \in 1..26} |->
               UpperAlpha[CHOOSE i \in 1..26 : LowerAlpha[i] = c]]

lower_char(c) == IF c \in DOMAIN LowerOf THEN LowerOf[c] ELSE c

upper_char(c) == IF c \in DOMAIN UpperOf THEN UpperOf[c] ELSE c

\* str.lower()
lower(s) == [i \in 1..Len(s) |-> lower_char(s[i])]

\* str.capitalize(): first character upper-cased, the rest lower-cased.
capitalize(s) == [i \in 1..Len(s) |-> IF i = 1 THEN upper_char(s[i]) ELSE lower_char(s[i])]

\* sub in s
Contains(sub, s) ==
    \E i \in 0..(Len(s) - Len(sub)) : SubSeq(s, i + 1, i + Len(sub)) = sub

\* str.replace(old, new) for a one-character old.
replace(s, old, new) == [i \in 1..Len(s) |-> IF s[i] = old THEN new ELSE s[i]]

RECURSIVE lstrip(_)
lstrip(s) == IF s # <<>> /\ Head(s) \in Whitespace THEN lstrip(Tail(s)) ELSE s

RECURSIVE rstrip(_)
rstrip(s) ==
    IF s # <<>> /\ s[Len(s)] \in Whitespace THEN rstrip(SubSeq(s, 1, Len(s) - 1)) ELSE s

\* str.strip()
strip(s) == rstrip(lstrip(s))

\* str.startswith(prefix)
startswith(s, prefix) == Len(prefix) <= Len(s) /\ SubSeq(s, 1, Len(prefix)) = prefix

\* sep.join(ss)
RECURSIVE join(_, _)
join(sep, ss) ==
    IF ss = <<>> THEN <<>>
    ELSE IF Len(ss) = 1 THEN Head(ss)
    ELSE Head(ss) \o sep \o join(sep, Tail(ss))

\* s.split(sep)[0] for a one-character sep: the text before the first sep.
RECURSIVE split_first(_, _)
split_first(s, sep) ==
    IF s = <<>> \/ Head(s) = sep THEN <<>> ELSE <<Head(s)>> \o split_first(Tail(s), sep)

---------------------------------------------------------------------------
(* The string literals of the source, and the names, routes and values of  *)
(* the catalogue the model runs on.                                        *)

\* 'null'
S_null == <<"n", "u", "l", "l">>

\* 'None'
S_None == <<"N", "o", "n", "e">>

\* 'result'
S_result == <<"r", "e", "s", "u", "l", "t">>

\* 'error'
S_error == <<"e", "r", "r", "o", "r">>

\* 'param'
S_param == <<"p", "a", "r", "a", "m">>

\* 'value'
S_value == <<"v", "a", "l", "u", "e">>

\* 'matched'
S_matched == <<"m", "a", "t", "c", "h", "e", "d">>

\* 'closest'
S_closest == <<"c", "l", "o", "s", "e", "s", "t">>

\* 'validation_errors'
S_validation_errors ==
    <<"v", "a", "l", "i", "d", "a", "t", "i", "o", "n", "_", "e", "r", "r", "o", "r", "s">>

\* 'portfolio_name'
S_portfolio_name ==
    <<"p", "o", "r", "t", "f", "o", "l", "i", "o", "_", "n", "a", "m", "e">>

\* 'benchmark_name'
S_benchmark_name ==
    <<"b", "e", "n", "c", "h", "m", "a", "r", "k", "_", "n", "a", "m", "e">>

\* 'portfolio'
S_portfolio == <<"p", "o", "r", "t", "f", "o", "l", "i", "o">>

\* 'benchmark'
S_benchmark == <<"b", "e", "n", "c", "h", "m", "a", "r", "k">>

\* 'period'
S_period == <<"p", "e", "r", "i", "o", "d">>

\* 'start_date'
S_start_date == <<"s", "t", "a", "r", "t", "_", "d", "a", "t", "e">>

\* 'foo'
S_foo == <<"f", "o", "o">>

\* 'sharpe_ratio'
S_sharpe_ratio == <<"s", "h", "a", "r", "p", "e", "_", "r", "a", "t", "i", "o">>

\* 'returns'
S_returns == <<"r", "e", "t", "u", "r", "n", "s">>

\* '/sharpe'
S_route_sharpe == <<"/", "s", "h", "a", "r", "p", "e">>

\* '/returns'
S_route_returns == <<"/", "r", "e", "t", "u", "r", "n", "s">>

\* 'Risk'
S_kw_risk == <<"R", "i", "s", "k">>

\* 'gain'
S_kw_gain == <<"g", "a", "i", "n">>

\* 'GET'
S_GET == <<"G", "E", "T">>

\* 'POST'
S_POST == <<"P", "O", "S", "T">>

\* 'U+2705'
S_check_mark == <<"U+2705">>

\* 'U+2022 '
S_bullet == <<"U+2022", " ">>

\* ': '
S_colon == <<":", " ">>

\* ', '
S_comma == <<",", " ">>

\* '\n'
S_newline == <<"\n">>

\* " '"
S_space_quote == <<" ", "'">>

\* "U+2753 I couldn't identify which API to call. Please rephrase your request."
MSG_clarify ==
    <<"U+2753", " ", "I", " ", "c", "o", "u", "l", "d", "n", "'", "t", " ", "i", "d", "e", "n",
      "t", "i", "f", "y", " ", "w", "h", "i", "c", "h", " ", "A", "P", "I", " ", "t", "o", " ",
      "c", "a", "l", "l", ".", " ", "P", "l", "e", "a", "s", "e", " ", "r", "e", "p", "h", "r",
      "a", "s", "e", " ", "y", "o", "u", "r", " ", "r", "e", "q", "u", "e", "s", "t", ".">>

\* 'Some parameters are invalid:\n'
MSG_invalid_head ==
    <<"S", "o", "m", "e", " ", "p", "a", "r", "a", "m", "e", "t", "e", "r", "s", " ", "a", "r",
      "e", " ", "i", "n", "v", "a", "l", "i", "d", ":", "\n">>

\* '\nPlease correct them.'
MSG_invalid_tail ==
    <<"\n", "P", "l", "e", "a", "s", "e", " ", "c", "o", "r", "r", "e", "c", "t", " ", "t",
      "h", "e", "m", ".">>

\* 'U+274C Error checking '
MSG_error_checking ==
    <<"U+274C", " ", "E", "r", "r", "o", "r", " ", "c", "h", "e", "c", "k", "i", "n", "g", " ">>

\* "' not found. Closest matches:\n"
MSG_not_found_closest ==
    <<"'", " ", "n", "o", "t", " ", "f", "o", "u", "n", "d", ".", " ", "C", "l", "o", "s", "e",
      "s", "t", " ", "m", "a", "t", "c", "h", "e", "s", ":", "\n">>

\* '\nPlease confirm or provide the correct name.'
MSG_please_confirm ==
    <<"\n", "P", "l", "e", "a", "s", "e", " ", "c", "o", "n", "f", "i", "r", "m", " ", "o",
      "r", " ", "p", "r", "o", "v", "i", "d", "e", " ", "t", "h", "e", " ", "c", "o", "r", "r",
      "e", "c", "t", " ", "n", "a", "m", "e", ".">>

\* "' not found in database."
MSG_not_found_db ==
    <<"'", " ", "n", "o", "t", " ", "f", "o", "u", "n", "d", " ", "i", "n", " ", "d", "a", "t",
      "a", "b", "a", "s", "e", ".">>

\* 'I still need the following parameters: '
MSG_still_need ==
    <<"I", " ", "s", "t", "i", "l", "l", " ", "n", "e", "e", "d", " ", "t", "h", "e", " ", "f",
      "o", "l", "l", "o", "w", "i", "n", "g", " ", "p", "a", "r", "a", "m", "e", "t", "e", "r",
      "s", ":", " ">>

\* 'U+274C API call failed: '
MSG_api_failed ==
    <<"U+274C", " ", "A", "P", "I", " ", "c", "a", "l", "l", " ", "f", "a", "i", "l", "e", "d",
      ":", " ">>

\* ' result:\n'
MSG_result == <<" ", "r", "e", "s", "u", "l", "t", ":", "\n">>

\* 'MongoDB connection failed'
MSG_mongo_failed ==
    <<"M", "o", "n", "g", "o", "D", "B", " ", "c", "o", "n", "n", "e", "c", "t", "i", "o", "n",
      " ", "f", "a", "i", "l", "e", "d">>

---------------------------------------------------------------------------
(* JSON values, as json.loads returns them.                                *)

JNull == [t |-> "null", v |-> <<>>]

JStr(s) == [t |-> "str", v |-> s]

JNum(digits) == [t |-> "num", v |-> digits]

\* True and False: v is the text str() gives them.
JBool(b) == [t |-> "bool", v |-> IF b THEN <<"T", "r", "u", "e">> ELSE <<"F", "a", "l", "s", "e">>]

JList(xs) == [t |-> "list", v |-> xs]

JObj(items) == [t |-> "obj", v |-> items]

\* isinstance(x, dict)
IsDict(x) == x.t = "obj"

\* Python's truth value of a value: None, False, "", 0, [] and {} are false.
Truthy(x) ==
    CASE x.t = "null" -> FALSE
      [] x.t = "bool" -> x = JBool(TRUE)
      [] x.t = "num"  -> x.v # <<"0">>
      [] OTHER        -> x.v # <<>>

\* key in d, for a dict d.
HasKey(d, key) == \E i \in 1..Len(d.v) : d.v[i][1] = key

\* d[key] for a key of d: of two entries with the same key, json.loads keeps the last.
GetItem(d, key) ==
    d.v[CHOOSE i \in 1..Len(d.v) :
            /\ d.v[i][1] = key
            /\ \A j \in (i + 1)..Len(d.v) : d.v[j][1] # key][2]

\* d.get(key, default)
Get(d, key, default) == IF HasKey(d, key) THEN GetItem(d, key) ELSE default

\* str(x) of a value inside an f-string: a str is itself, None is 'None', a number
\* its digits.  (Lists and dicts are not among the values the model feeds in.)
py_str(x) ==
    CASE x.t = "str"  -> x.v
      [] x.t = "null" -> S_None
      [] OTHER        -> x.v

\* json.dumps(x, indent=2) for a scalar, or for a dict whose values are scalars.
dumps_scalar(x) ==
    CASE x.t = "str"  -> <<"\"">> \o x.v \o <<"\"">>
      [] x.t = "null" -> S_null
      [] OTHER        -> x.v

dumps(x) ==
    IF x.t # "obj" THEN dumps_scalar(x)
    ELSE IF x.v = <<>> THEN <<"{", "}">>
    ELSE <<"{", "\n">>
         \o join(<<",", "\n">>,
                 [i \in 1..Len(x.v) |->
                     <<" ", " ", "\"">> \o x.v[i][1] \o <<"\"", ":", " ">>
                     \o dumps_scalar(x.v[i][2])])
         \o <<"\n", "}">>

---------------------------------------------------------------------------
(* Python dicts with str keys (state.params): functions on a set of keys.  *)

EmptyDict == <<>>

\* d.update(e)
update(d, e) ==
    [k \in DOMAIN d \cup DOMAIN e |-> IF k \in DOMAIN e THEN e[k] ELSE d[k]]

\* d[key] = value
setitem(d, key, value) ==
    [k \in DOMAIN d \cup {key} |-> IF k = key THEN value ELSE d[k]]

---------------------------------------------------------------------------
(* The catalogue document of MongoDB (build_api_specs.py writes it): the   *)
(* endpoint descriptors and the reference names.                           *)

ParameterSpec(name, required) == [name |-> name, required |-> required]

\* An endpoint with entity-name parameters and no validation rules.
SharpeRatio ==
    [name |-> S_sharpe_ratio, route |-> S_route_sharpe, method |-> S_GET,
     keywords |-> <<S_kw_risk>>,
     parameters |-> <<ParameterSpec(S_portfolio_name, TRUE), ParameterSpec(S_period, TRUE)>>,
     validation_rules |-> <<>>]

\* An endpoint with a validation rule, an optional parameter and no entity name.
Returns ==
    [name |-> S_returns, route |-> S_route_returns, method |-> S_POST,
     keywords |-> <<S_kw_gain>>,
     parameters |-> <<ParameterSpec(S_start_date, TRUE), ParameterSpec(S_period, FALSE)>>,
     validation_rules |-> << <<S_start_date, <<"I", "S", "O">> >> >>]

APIS == <<SharpeRatio, Returns>>

\* 'Alpha', 'Beta'
PortfolioNames == << <<"A", "l", "p", "h", "a">>, <<"B", "e", "t", "a">> >>

\* 'Index'
BenchmarkNames == << <<"I", "n", "d", "e", "x">> >>

\* {p["name"] for p in endpoint.get("parameters", [])}
expected_params_of(endpoint) ==
    {endpoint.parameters[i].name : i \in 1..Len(endpoint.parameters)}

---------------------------------------------------------------------------
(* The completion capability, call_groq: it raises (a transport failure or *)
(* a non-2xx answer, llm_client.py:23-32) or returns text.  The text is    *)
(* modelled by what json.loads makes of it: json is None for text that is  *)
(* not JSON and Some(value) otherwise, fenced says whether the JSON is     *)
(* wrapped in a Markdown code fence.                                       *)

Raises == [raises |-> TRUE, fenced |-> FALSE, json |-> None]

Text(fenced, x) == [raises |-> FALSE, fenced |-> fenced, json |-> Some(x)]

Malformed == [raises |-> FALSE, fenced |-> FALSE, json |-> None]

\* The argument standing for the completion of a call that is not made.
NotCalled == Malformed

\* json.loads(re.sub(r"^```(?:json)?|```$", "", text.strip())): None when it raises.
loads_unfenced(llm) == llm.json

\* json.loads(text): a fenced answer is not JSON.
loads(llm) == IF llm.fenced THEN None ELSE llm.json

\* str(e) of the exceptions the model raises.
\* 'timed out'
ERR_timeout == <<"t", "i", "m", "e", "d", " ", "o", "u", "t">>

\* 'Expecting value'
ERR_json == <<"E", "x", "p", "e", "c", "t", "i", "n", "g", " ", "v", "a", "l", "u", "e">>

\* 'no attribute get'
ERR_attribute ==
    <<"n", "o", " ", "a", "t", "t", "r", "i", "b", "u", "t", "e", " ", "g", "e", "t">>

---------------------------------------------------------------------------
(* Core matching and extraction.                                           *)

\* The body of match_endpoint's loop: whether api is returned for query.
api_matches(api, query) ==
    LET name     == replace(lower(api.name), "_", " ")
        route    == lower(api.route)
        keywords == [i \in 1..Len(api.keywords) |-> lower(api.keywords[i])]
    IN  \/ Contains(name, query) \/ Contains(route, query)
        \/ \E i \in 1..Len(keywords) : Contains(keywords[i], query)

RECURSIVE match_loop(_, _)
match_loop(apis, query) ==
    IF apis = <<>> THEN None
    ELSE IF api_matches(Head(apis), query) THEN Some(Head(apis))
    ELSE match_loop(Tail(apis), query)

\* A variant of match_endpoint that prefers a descriptor hit by its name or route to
\* an earlier one hit by a keyword only.
RECURSIVE match_loop_name(_, _)
match_loop_name(apis, query) ==
    IF apis = <<>> THEN None
    ELSE IF \/ Contains(replace(lower(Head(apis).name), "_", " "), query)
            \/ Contains(lower(Head(apis).route), query)
         THEN Some(Head(apis))
    ELSE match_loop_name(Tail(apis), query)

match_endpoint_name_first(user_query, api_specs) ==
    IF match_loop_name(api_specs.apis, lower(user_query)) # None
    THEN match_loop_name(api_specs.apis, lower(user_query))
    ELSE match_loop(api_specs.apis, lower(user_query))

match_endpoint(user_query, api_specs) == match_loop(api_specs.apis, lower(user_query))

\* The value of the dict comprehension of line 124 for one entry.
is_extracted(k, x) == Truthy(x) /\ lower(x.v) # S_null

\* Line 124: {k: v for k, v in parsed.items() if ...}
extracted_items(parsed) ==
    [k \in {parsed.v[i][1] : i \in {j \in 1..Len(parsed.v) :
                is_extracted(parsed.v[j][1], GetItem(parsed, parsed.v[j][1]))}}
        |-> GetItem(parsed, k)]

\* Returns [raised, value, calls]: whether call_groq's exception leaves the function,
\* the dict returned, the number of completion calls made.
extract_parameters_with_llm(user_query, endpoint, llm) ==
    IF endpoint.parameters = <<>> THEN [raised |-> FALSE, value |-> EmptyDict, calls |-> 0]
    ELSE IF llm.raises THEN [raised |-> TRUE, value |-> EmptyDict, calls |-> 1]
    ELSE LET parsed == loads_unfenced(llm)
             value ==
                 IF parsed = None THEN EmptyDict
                 ELSE IF ~IsDict(parsed[1]) THEN EmptyDict
                 ELSE IF \E i \in 1..Len(parsed[1].v) :
                            Truthy(parsed[1].v[i][2]) /\ parsed[1].v[i][2].t # "str"
                      THEN EmptyDict
                 ELSE extracted_items(parsed[1])
         IN  [raised |-> FALSE, value |-> value, calls |-> 1]

\* A variant of validate_parameters_with_llm that asks the completion capability
\* also when the endpoint has no rules.
validate_parameters_with_llm_asks(params, endpoint, llm) ==
    IF llm.raises THEN [value |-> <<>>, calls |-> 1]
    ELSE LET parsed == loads_unfenced(llm)
             errors == Get(parsed[1], S_validation_errors, JObj(<<>>))
             value ==
                 IF parsed = None THEN <<>>
                 ELSE IF ~IsDict(parsed[1]) THEN <<>>
                 ELSE IF IsDict(errors) THEN errors.v
                 ELSE <<>>
         IN  [value |-> value, calls |-> 1]

\* Returns [value, calls]: the dict of errors, as its items in order.
validate_parameters_with_llm(params, endpoint, llm) ==
    IF endpoint.validation_rules = <<>> THEN [value |-> <<>>, calls |-> 0]
    ELSE IF llm.raises THEN [value |-> <<>>, calls |-> 1]
    ELSE LET parsed == loads_unfenced(llm)
             errors == Get(parsed[1], S_validation_errors, JObj(<<>>))
             value ==
                 IF parsed = None THEN <<>>
                 ELSE IF ~IsDict(parsed[1]) THEN <<>>
                 ELSE IF IsDict(errors) THEN errors.v
                 ELSE <<>>
         IN  [value |-> value, calls |-> 1]

\* A variant of find_missing_params that asks for the optional parameters too.
find_missing_params_optional(params, endpoint) ==
    LET names == [i \in 1..Len(endpoint.parameters) |-> endpoint.parameters[i].name]
    IN  SelectSeq(names, LAMBDA r : r \notin DOMAIN params)

\* A variant of find_missing_params that finds nothing missing.
find_missing_params_none(params, endpoint) == <<>>

find_missing_params(params, endpoint) ==
    LET required ==
            SelectSeq([i \in 1..Len(endpoint.parameters) |-> endpoint.parameters[i]],
                      LAMBDA p : p.required)
        names == [i \in 1..Len(required) |-> required[i].name]
    IN  SelectSeq(names, LAMBDA r : r \notin DOMAIN params)

---------------------------------------------------------------------------
(* The users' queries the model sends.                                     *)

\* 'Sharpe ratio'
Q_sharpe == <<"S", "h", "a", "r", "p", "e", " ", "r", "a", "t", "i", "o">>

\* 'returns start_date=2023-01-01'
Q_returns ==
    <<"r", "e", "t", "u", "r", "n", "s", " ", "s", "t", "a", "r", "t", "_", "d", "a", "t",
      "e", "=", "2", "0", "2", "3", "-", "0", "1", "-", "0", "1">>

\* 'my gain'
Q_gain == <<"m", "y", " ", "g", "a", "i", "n">>

\* 'period = 1Y, foo=x'
Q_fix ==
    <<"p", "e", "r", "i", "o", "d", " ", "=", " ", "1", "Y", ",", " ", "f", "o", "o", "=", "x">>

\* 'hello'
Q_hello == <<"h", "e", "l", "l", "o">>

Queries == {Q_sharpe, Q_returns, Q_gain, Q_fix, Q_hello}

---------------------------------------------------------------------------
(* API execution.                                                          *)

\* What get_mongo_collection and find_one do in one call of check_name_in_db:
\* "unavailable": get_mongo_collection returned None; "error": find_one raised;
\* "no_doc": find_one found no document; "doc": it returned the catalogue document.
MongoOutcomes == {"unavailable", "error", "no_doc", "doc"}

ErrorResult(text) == JObj(<< <<S_error, JStr(text)>> >>)

S_exists == <<"e", "x", "i", "s", "t", "s">>

NameResult(exists, matched, closest) ==
    JObj(<< <<S_exists, JBool(exists)>>, <<S_matched, matched>>, <<S_closest, closest>> >>)

\* Lines 212-219: the reference names the document gives for name_type.
all_names_of(name_type, mongo) ==
    IF mongo = "doc"
    THEN IF name_type = S_portfolio THEN PortfolioNames
         ELSE IF name_type = S_benchmark THEN BenchmarkNames
         ELSE <<>>
    ELSE <<>>

\* A variant of check_name_in_db that takes the name as it is when the lookup or the
\* completion fails.
check_name_in_db_fail_open(name, name_type, mongo, llm) ==
    IF mongo \in {"unavailable", "error"}
    THEN [value |-> NameResult(TRUE, name, JList(<<>>)), calls |-> 0]
    ELSE IF all_names_of(name_type, mongo) = <<>>
         THEN [value |-> NameResult(FALSE, JNull, JList(<<>>)), calls |-> 0]
    ELSE IF llm.raises \/ loads(llm) = None \/ ~IsDict(loads(llm)[1])
         THEN [value |-> NameResult(TRUE, name, JList(<<>>)), calls |-> 1]
    ELSE IF Truthy(Get(loads(llm)[1], S_matched, JNull))
         THEN [value |-> NameResult(TRUE, Get(loads(llm)[1], S_matched, JNull), JList(<<>>)),
               calls |-> 1]
    ELSE [value |-> NameResult(FALSE, JNull, Get(loads(llm)[1], S_closest, JList(<<>>))),
          calls |-> 1]

\* Returns [value, calls]: the dict returned and the number of completion calls.
check_name_in_db(name, name_type, mongo, llm) ==
    IF mongo = "unavailable" THEN [value |-> ErrorResult(MSG_mongo_failed), calls |-> 0]
    ELSE IF mongo = "error" THEN [value |-> ErrorResult(ERR_timeout), calls |-> 0]
    ELSE IF all_names_of(name_type, mongo) = <<>>
         THEN [value |-> NameResult(FALSE, JNull, JList(<<>>)), calls |-> 0]
    ELSE IF llm.raises THEN [value |-> ErrorResult(ERR_timeout), calls |-> 1]
    ELSE LET parsed == loads(llm)
             matched == Get(parsed[1], S_matched, JNull)
             closest == Get(parsed[1], S_closest, JList(<<>>))
             value ==
                 IF parsed = None THEN ErrorResult(ERR_json)
                 ELSE IF ~IsDict(parsed[1]) THEN ErrorResult(ERR_attribute)
                 ELSE IF Truthy(matched) THEN NameResult(TRUE, matched, JList(<<>>))
                 ELSE NameResult(FALSE, JNull, closest)
         IN  [value |-> value, calls |-> 1]

\* The downstream API's answer to one request: [ok |-> FALSE, error |-> text] for a
\* transport exception or a non-2xx status (raise_for_status), with str(e) as text;
\* [ok |-> TRUE, json |-> value] for a 2xx answer whose body is the JSON value.
HttpError(text) == [ok |-> FALSE, error |-> text, json |-> JNull]

HttpOk(x) == [ok |-> TRUE, error |-> <<>>, json |-> x]

\* Returns [value, request]: the result, and the request made: its verb and where
\* the params went ("params": the query string, "json": the body).
call_api(endpoint, params, http) ==
    LET method == [i \in 1..Len(endpoint.method) |-> upper_char(endpoint.method[i])]
        request ==
            IF method = S_GET
            THEN [verb |-> "get", route |-> endpoint.route, params |-> Some(params), json |-> None]
            ELSE [verb |-> "post", route |-> endpoint.route, params |-> None, json |-> Some(params)]
    IN  [value |-> IF http.ok THEN http.json ELSE ErrorResult(http.error), request |-> request]

\* (\w+)\s*=\s*([\w\-]+)'s second group: a word character or '-'.
ValueChars == WordChars \cup {"-"}

\* The end (the index after it) of the longest run of characters of cs in s from i.
RECURSIVE run_end(_, _, _)
run_end(s, i, cs) == IF i <= Len(s) /\ s[i] \in cs THEN run_end(s, i + 1, cs) ELSE i

\* The match of (\w+)\s*=\s*([\w\-]+) that starts at i: None, or Some of its two
\* groups and its end.  Each repetition is greedy, and giving characters back never
\* helps: what follows \w+ is no word character, what follows \s* is no whitespace.
kv_match_at(s, i) ==
    LET j == run_end(s, i, WordChars)
        k == run_end(s, j, Whitespace)
        m == run_end(s, k + 1, Whitespace)
        n == run_end(s, m, ValueChars)
    IN  IF j = i \/ k > Len(s) THEN None
        ELSE IF s[k] # "=" \/ n = m THEN None
        ELSE Some([key |-> SubSeq(s, i, j - 1), value |-> SubSeq(s, m, n - 1), end |-> n])

\* re.findall(r"(\w+)\s*=\s*([\w\-]+)", s) from position i: the matches left to
\* right, none overlapping.
RECURSIVE findall_from(_, _)
findall_from(s, i) ==
    IF i > Len(s) THEN <<>>
    ELSE LET m == kv_match_at(s, i)
         IN  IF m = None THEN findall_from(s, i + 1)
             ELSE <<m[1]>> \o findall_from(s, m[1].end)

\* The matches of the model's queries, computed once.
KvMatches == [q \in Queries |-> findall_from(q, 1)]

findall_kv(s) == IF s \in DOMAIN KvMatches THEN KvMatches[s] ELSE findall_from(s, 1)

\* Lines 280-282: the loop over the matches.
RECURSIVE merge_matches(_, _, _)
merge_matches(params, matches, expected_params) ==
    IF matches = <<>> THEN params
    ELSE merge_matches(
            IF Head(matches).key \in expected_params
            THEN setitem(params, Head(matches).key, JStr(Head(matches).value))
            ELSE params,
            Tail(matches), expected_params)

\* A variant of merge_user_fix_into_state that takes every key=value token, declared
\* or not.
merge_user_fix_into_state_any_key(user_input, state, endpoint, llm) ==
    LET matches == findall_kv(user_input)
    IN  [raised |-> FALSE, calls |-> 0,
         params |-> merge_matches(state.params, matches,
                                  {matches[i].key : i \in 1..Len(matches)})]

\* A variant of merge_user_fix_into_state that applies the completion's answer
\* without asking whether its param is one the endpoint declares.
merge_user_fix_into_state_undeclared(user_input, state, endpoint, llm) ==
    LET expected_params == expected_params_of(endpoint)
        matches == findall_kv(user_input)
    IN  IF matches # <<>>
        THEN [raised |-> FALSE, calls |-> 0,
              params |-> merge_matches(state.params, matches, expected_params)]
        ELSE IF llm.raises THEN [raised |-> TRUE, calls |-> 1, params |-> state.params]
        ELSE LET parsed == loads(llm)
                 param == Get(parsed[1], S_param, JNull)
                 applies ==
                     /\ parsed # None
                     /\ Truthy(parsed[1])
                     /\ IsDict(parsed[1])
                     /\ param.t = "str"
                     /\ HasKey(parsed[1], S_value)
             IN  [raised |-> FALSE, calls |-> 1,
                  params |-> IF applies
                             THEN setitem(state.params, param.v, GetItem(parsed[1], S_value))
                             ELSE state.params]

\* Returns [raised, params, calls]: whether call_groq's exception leaves the
\* function, state.params as the function leaves it, the completion calls made.
merge_user_fix_into_state(user_input, state, endpoint, llm) ==
    LET expected_params == expected_params_of(endpoint)
        matches == findall_kv(user_input)
    IN  IF matches # <<>>
        THEN [raised |-> FALSE, calls |-> 0,
              params |-> merge_matches(state.params, matches, expected_params)]
        ELSE IF llm.raises THEN [raised |-> TRUE, calls |-> 1, params |-> state.params]
        ELSE LET parsed == loads(llm)
                 param == Get(parsed[1], S_param, JNull)
                 applies ==
                     /\ parsed # None
                     /\ Truthy(parsed[1])
                     /\ IsDict(parsed[1])
                     /\ param.t = "str"
                     /\ param.v \in expected_params
                     /\ HasKey(parsed[1], S_value)
             IN  [raised |-> FALSE, calls |-> 1,
                  params |-> IF applies
                             THEN setitem(state.params, param.v, GetItem(parsed[1], S_value))
                             ELSE state.params]

---------------------------------------------------------------------------
(* The messages orchestrate_query returns.                                 *)

\* "\n".join(f"U+2022 {k}: {v}" for k, v in validation_errors.items()), line 341
error_lines(validation_errors) ==
    join(S_newline,
         [i \in 1..Len(validation_errors) |->
             S_bullet \o validation_errors[i][1] \o S_colon \o py_str(validation_errors[i][2])])

\* Line 342
msg_invalid(validation_errors) ==
    MSG_invalid_head \o error_lines(validation_errors) \o MSG_invalid_tail

\* Line 352
msg_error_checking(name_type, error) ==
    MSG_error_checking \o name_type \o S_colon \o py_str(error)

\* Iterating closest (line 364): the elements of a list, the characters of a str,
\* the keys of a dict.
iterate(closest) ==
    CASE closest.t = "list" -> [i \in 1..Len(closest.v) |-> py_str(closest.v[i])]
      [] closest.t = "str"  -> [i \in 1..Len(closest.v) |-> <<closest.v[i]>>]
      [] OTHER              -> [i \in 1..Len(closest.v) |-> closest.v[i][1]]

\* Lines 361-367
msg_not_found(name_type, value, closest) ==
    LET display_name == capitalize(name_type)
    IN  IF Truthy(closest)
        THEN LET suggestion_text ==
                     join(S_newline,
                          [i \in 1..Len(iterate(closest)) |-> S_bullet \o iterate(closest)[i]])
             IN  display_name \o S_space_quote \o py_str(value) \o MSG_not_found_closest
                 \o suggestion_text \o MSG_please_confirm
        ELSE display_name \o S_space_quote \o py_str(value) \o MSG_not_found_db

\* Line 374
msg_missing(missing) == MSG_still_need \o join(S_comma, missing) \o <<".">>

\* Line 382
msg_api_failed(result) == MSG_api_failed \o py_str(GetItem(result, S_error))

\* Line 384
msg_api_ok(endpoint, result) ==
    S_check_mark \o <<" ">> \o endpoint.name \o MSG_result \o dumps(result)

\* A variant of is_completed_of that never sees a completion.
is_completed_never(result) == FALSE

\* routes.py line 29
is_completed_of(result) ==
    startswith(strip(result), S_check_mark) \/ Contains(S_result, lower(result))

---------------------------------------------------------------------------
(* The requests and the collaborators' answers the model draws from.       *)

\* request.session_id is str or None (models.py:14); getattr(request, "session_id",
\* "default") finds the attribute always, so the session key is its value.
NoSessionId == "None"

SessionIds == {"s1", NoSessionId}

\* request.history: absent (the default, []), or the client's copy of a conversation.
NoHistory == <<>>

ClientHistory ==
    <<[role |-> "user", content |-> Q_hello],
      [role |-> "assistant", content |-> MSG_clarify]>>

\* The requests the model sends: every query on session "s1", two queries without a
\* session id, and one query that carries the client's history.
QueryRequest(session_id, query, history) ==
    [session_id |-> session_id, query |-> query, history |-> history]

Requests ==
    {QueryRequest("s1", q, NoHistory) : q \in Queries}
    \cup {QueryRequest(NoSessionId, q, NoHistory) : q \in {Q_returns, Q_fix}}
    \cup {QueryRequest("s1", Q_gain, ClientHistory)}

\* What the extractor's completion says of one parameter.
\* 'alpha'
V_alpha == <<"a", "l", "p", "h", "a">>

\* '1Y'
V_1Y == <<"1", "Y">>

\* '3M'
V_3M == <<"3", "M">>

\* '2023-01-01'
V_date == <<"2", "0", "2", "3", "-", "0", "1", "-", "0", "1">>

ExtractedValue(name) ==
    CASE name = S_portfolio_name -> V_alpha
      [] name = S_period         -> V_1Y
      [] OTHER                   -> V_date

\* The completions of the extraction prompt: a failure, text that is no JSON, a
\* fenced object with every parameter, an object with the first parameter and 'NULL'
\* for the others, an object with the last parameter and a key the endpoint does not
\* declare.
ExtractCompletions(endpoint) ==
    LET names == [i \in 1..Len(endpoint.parameters) |-> endpoint.parameters[i].name]
        n == Len(names)
    IN  { Raises,
          Malformed,
          Text(TRUE, JObj([i \in 1..n |-> <<names[i], JStr(ExtractedValue(names[i]))>>])),
          Text(FALSE, JObj([i \in 1..n |->
                <<names[i], IF i = 1 THEN JStr(ExtractedValue(names[i]))
                            ELSE JStr(<<"N", "U", "L", "L">>)>>])),
          Text(FALSE, JObj(<< <<names[n], JStr(ExtractedValue(names[n]))>>,
                              <<S_foo, JStr(<<"x">>)>> >>)) }

\* The completions of the correction prompt: a failure, text that is no JSON, a
\* correction of the last parameter, a correction of an undeclared one.
MergeCompletions(endpoint) ==
    LET n == Len(endpoint.parameters)
    IN  { Raises,
          Malformed,
          Text(FALSE, JObj(<< <<S_param, JStr(endpoint.parameters[n].name)>>,
                              <<S_value, JStr(V_3M)>> >>)),
          Text(FALSE, JObj(<< <<S_param, JStr(S_foo)>>, <<S_value, JStr(<<"x">>)>> >>)) }

\* The completions of the validation prompt: a failure, no violation, a violation of
\* the first rule.
ValidateCompletions(endpoint) ==
    { Raises,
      Text(TRUE, JObj(<< <<S_validation_errors, JObj(<<>>)>> >>)),
      Text(FALSE, JObj(<< <<S_validation_errors,
                            JObj(<< <<endpoint.validation_rules[1][1],
                                      JStr(<<"b", "a", "d">>)>> >>)>> >>)) }

\* The completions of the name-matching prompt: a failure, text that is no JSON, a
\* match, no match with suggestions.
MatchCompletions ==
    { Raises,
      Malformed,
      Text(FALSE, JObj(<< <<S_matched, JStr(PortfolioNames[1])>>, <<S_closest, JList(<<>>)>> >>)),
      Text(FALSE, JObj(<< <<S_matched, JNull>>,
                          <<S_closest, JList(<<JStr(PortfolioNames[1]),
                                               JStr(PortfolioNames[2])>>)>> >>)) }

\* str(e) of a failed request whose text has the word 'result' in it (an HTTPError's
\* text carries the server's reason phrase and the request's URL).
\* 'bad result'
ERR_bad_result == <<"b", "a", "d", " ", "r", "e", "s", "u", "l", "t">>

\* The downstream API's answers: {"value": 1}, and two failures.
HttpOutcomes ==
    { HttpOk(JObj(<< <<S_value, JNum(<<"1">>)>> >>)),
      HttpError(ERR_timeout),
      HttpError(ERR_bad_result) }

\* What ConversationState() loads (load_specs_from_mongo): the catalogue document's
\* apis, nothing (no connection object or no document), or find_one's exception.
LoadOutcomes == {"doc", "no_doc", "error"}

---------------------------------------------------------------------------
(* State.                                                                  *)

\* ConversationState.__init__, given the apis load_specs_from_mongo returned.
ConversationState(apis) ==
    [api_specs |-> [apis |-> apis, validation_rules |-> EmptyDict],
     current_endpoint |-> None, params |-> EmptyDict, history |-> <<>>]

\* The record of one request, filled in as the request runs:
\*   session_id, query  the request;
\*   created            whether the request created the session's state;
\*   previous           how the session's request before this one ended ("none":
\*                      this is its first);
\*   stored_history     Some(the stored state's history before the request), None
\*                      if the session had no state;
\*   entry              the state orchestrate_query was called with;
\*   state              the state as the request leaves it;
\*   outcome            where the request ended; raised: by an exception;
\*   response           Some(the message returned), None if it raised;
\*   session_cleared    is_completed of process_query;
\*   stages             the stages of orchestrate_query that ran, in order;
\*   llm_calls          the number of call_groq calls;
\*   supplied           the names of the params the request's extraction and merge
\*                      assigned;
\*   validation         Some(the validator's errors) once it ran;
\*   checks             the check_name_in_db calls and what they returned;
\*   missing            Some(find_missing_params's list) once it ran;
\*   request, api       Some(call_api's request) and Some(its result) once it ran.
Request(session_id, query, created, stored_history, entry) ==
    [session_id |-> session_id, query |-> query, created |-> created,
     previous |-> outcomes[session_id], stored_history |-> stored_history,
     entry |-> entry, state |-> entry, outcome |-> "running", raised |-> FALSE,
     response |-> None, session_cleared |-> FALSE, stages |-> <<>>, llm_calls |-> 0,
     supplied |-> {}, validation |-> None, checks |-> <<>>, missing |-> None, request |-> None,
     api |-> None]

NoRequest ==
    [session_id |-> NoSessionId, query |-> <<>>, created |-> FALSE, previous |-> "none",
     stored_history |-> None, entry |-> ConversationState(<<>>),
     state |-> ConversationState(<<>>), outcome |-> "init", raised |-> FALSE,
     response |-> None, session_cleared |-> FALSE, stages |-> <<>>, llm_calls |-> 0,
     supplied |-> {}, validation |-> None, checks |-> <<>>, missing |-> None, request |-> None,
     api |-> None]

\* The threads that run the handler: FastAPI runs a handler declared with def, not
\* async def (routes.py:10-11), on a pool of worker threads.
Workers == {"w1", "w2"}

\* A worker that runs no request.
Idle == [pc |-> "idle", request |-> None, state |-> None, outcome |-> "none"]

\* No pure function applied yet.
NoProbe == [op |-> "init", query |-> <<>>, apis |-> <<>>, result |-> None]

Init ==
    /\ sessions = <<>>
    /\ last = NoRequest
    /\ outcomes = [k \in SessionIds |-> "none"]
    /\ turns = 0
    /\ probe = NoProbe
    /\ workers = [w \in Workers |-> Idle]
    /\ heap = <<>>

---------------------------------------------------------------------------
(* process_query and orchestrate_query.  The handler is one action; it is  *)
(* written as the chain of its stages, last stage first, each stage        *)
(* drawing the answer of the collaborator it calls.                        *)

\* sessions with key bound to state.
Store(key, state) ==
    [k \in DOMAIN sessions \cup {key} |-> IF k = key THEN state ELSE sessions[k]]

\* A variant of Respond that returns msg without appending the assistant's entry.
Respond_unrecorded(c, outcome, msg) ==
    LET is_completed == is_completed_of(msg)
        stored == Store(c.session_id, c.state)
    IN  /\ sessions' = IF is_completed
                       THEN [k \in DOMAIN stored \ {c.session_id} |-> stored[k]]
                       ELSE stored
        /\ last' = [c EXCEPT !.outcome = outcome, !.response = Some(msg),
                             !.session_cleared = is_completed]
        /\ outcomes' = [outcomes EXCEPT ![c.session_id] = outcome]
        /\ turns' = turns + 1
        /\ UNCHANGED <<probe, workers, heap>>

\* A variant of Respond that appends the assistant's entry twice.
Respond_twice(c, outcome, msg) ==
    LET entry == [role |-> "assistant", content |-> msg]
        state == [c.state EXCEPT !.history = Append(Append(@, entry), entry)]
        is_completed == is_completed_of(msg)
        stored == Store(c.session_id, state)
    IN  /\ sessions' = IF is_completed
                       THEN [k \in DOMAIN stored \ {c.session_id} |-> stored[k]]
                       ELSE stored
        /\ last' = [c EXCEPT !.state = state, !.outcome = outcome,
                             !.response = Some(msg), !.session_cleared = is_completed]
        /\ outcomes' = [outcomes EXCEPT ![c.session_id] = outcome]
        /\ turns' = turns + 1
        /\ UNCHANGED <<probe, workers, heap>>

\* orchestrate_query appends the assistant's entry and returns msg; process_query
\* (routes.py:28-44) clears the session if the message looks like a completion.
Respond(c, outcome, msg) ==
    LET state == [c.state EXCEPT
                    !.history = Append(@, [role |-> "assistant", content |-> msg])]
        is_completed == is_completed_of(msg)
        stored == Store(c.session_id, state)
    IN  /\ sessions' = IF is_completed
                       THEN [k \in DOMAIN stored \ {c.session_id} |-> stored[k]]
                       ELSE stored
        /\ last' = [c EXCEPT !.state = state, !.outcome = outcome,
                             !.response = Some(msg), !.session_cleared = is_completed]
        /\ outcomes' = [outcomes EXCEPT ![c.session_id] = outcome]
        /\ turns' = turns + 1
        /\ UNCHANGED <<probe, workers, heap>>

\* An exception leaves orchestrate_query and process_query: the state object, as
\* mutated so far, stays in sessions.
Propagate(c) ==
    /\ sessions' = Store(c.session_id, c.state)
    /\ last' = [c EXCEPT !.outcome = "raised", !.raised = TRUE]
    /\ outcomes' = [outcomes EXCEPT ![c.session_id] = "raised"]
    /\ turns' = turns + 1
    /\ UNCHANGED <<probe, workers, heap>>

\* "error" in result, for the results that have members.
error_in(result) ==
    CASE result.t = "obj"  -> HasKey(result, S_error)
      [] result.t = "list" -> \E i \in 1..Len(result.v) : result.v[i] = JStr(S_error)
      [] OTHER             -> Contains(S_error, result.v)

\* Lines 378-387.  "error" in result raises TypeError for a result that is None, a
\* number or a bool, and result['error'] raises for a list or a str.
Invoke(c, endpoint) ==
    \E http \in HttpOutcomes :
        LET called == call_api(endpoint, c.state.params, http)
            result == called.value
            c1 == [c EXCEPT !.stages = Append(@, "invoke"),
                            !.request = Some(called.request), !.api = Some(result)]
        IN  IF result.t \notin {"obj", "list", "str"} THEN Propagate(c1)
            ELSE IF ~error_in(result) THEN Respond(c1, "api_ok", msg_api_ok(endpoint, result))
            ELSE IF IsDict(result) THEN Respond(c1, "api_failed", msg_api_failed(result))
            ELSE Propagate(c1)

\* Lines 371-376.
CheckMissing(c, endpoint) ==
    LET missing == find_missing_params(c.state.params, endpoint)
        c1 == [c EXCEPT !.stages = Append(@, "missing"), !.missing = Some(missing)]
    IN  IF missing # <<>> THEN Respond(c1, "missing", msg_missing(missing))
        ELSE Invoke(c1, endpoint)

\* Line 349: param_name.split("_")[0] + "s"
name_type_of(param_name) == split_first(param_name, "_") \o <<"s">>

\* Lines 349-350: the check of the entity parameter param_name, recorded.
EntityCheck(c, param_name, mongo, llm) ==
    LET name_type == name_type_of(param_name)
        value == c.state.params[param_name]
        checked == check_name_in_db(value, name_type, mongo, llm)
    IN  [c EXCEPT !.stages = Append(@, "resolve"),
                  !.llm_calls = @ + checked.calls,
                  !.checks = Append(@, [param |-> param_name, name |-> value,
                                        name_type |-> name_type, mongo |-> mongo,
                                        result |-> checked.value])]

\* The completions the check of param_name can draw: none when it does not ask.
EntityCompletions(param_name, mongo) ==
    IF all_names_of(name_type_of(param_name), mongo) = <<>>
    THEN {NotCalled} ELSE MatchCompletions

\* Lines 355-358: the name exists; the param takes the matched name if that differs.
EntityExists(c) == Truthy(Get(c.checks[Len(c.checks)].result, S_exists, JNull))

EntityRewrite(c) ==
    LET check == c.checks[Len(c.checks)]
        matched == Get(check.result, S_matched, JNull)
    IN  [c EXCEPT !.state.params =
            IF Truthy(matched) /\ matched # check.name
            THEN setitem(@, check.param, matched) ELSE @]

\* Lines 351-354 and 359-369: the check erred, or the name does not exist.  Iterating
\* a truthy closest that is a number or a bool raises TypeError.
EntityRefuse(c) ==
    LET check == c.checks[Len(c.checks)]
        closest == Get(check.result, S_closest, JList(<<>>))
    IN  IF Truthy(Get(check.result, S_error, JNull))
        THEN Respond(c, "entity_error",
                     msg_error_checking(check.name_type, GetItem(check.result, S_error)))
        ELSE IF Truthy(closest) /\ closest.t \in {"num", "bool"}
        THEN Propagate(c)
        ELSE Respond(c, "entity_miss", msg_not_found(check.name_type, check.name, closest))

\* Lines 347-369, the loop's second iteration (benchmark_name), then the rest of
\* the turn.
ResolveBenchmark(c, endpoint) ==
    IF S_benchmark_name \notin DOMAIN c.state.params THEN CheckMissing(c, endpoint)
    ELSE \E mongo \in MongoOutcomes :
         \E llm \in EntityCompletions(S_benchmark_name, mongo) :
            LET c1 == EntityCheck(c, S_benchmark_name, mongo, llm)
            IN  IF ~Truthy(Get(c1.checks[Len(c1.checks)].result, S_error, JNull))
                   /\ EntityExists(c1)
                THEN CheckMissing(EntityRewrite(c1), endpoint)
                ELSE EntityRefuse(c1)

\* Lines 347-369, the loop's first iteration (portfolio_name), then the second.
ResolvePortfolio(c, endpoint) ==
    IF S_portfolio_name \notin DOMAIN c.state.params THEN ResolveBenchmark(c, endpoint)
    ELSE \E mongo \in MongoOutcomes :
         \E llm \in EntityCompletions(S_portfolio_name, mongo) :
            LET c1 == EntityCheck(c, S_portfolio_name, mongo, llm)
            IN  IF ~Truthy(Get(c1.checks[Len(c1.checks)].result, S_error, JNull))
                   /\ EntityExists(c1)
                THEN ResolveBenchmark(EntityRewrite(c1), endpoint)
                ELSE EntityRefuse(c1)

\* A variant of Validate that goes on to the entity names whatever the validator
\* reported.
Validate_unheeded(c, endpoint) ==
    \E llm \in (IF endpoint.validation_rules = <<>>
                THEN {NotCalled} ELSE ValidateCompletions(endpoint)) :
        LET validated == validate_parameters_with_llm(c.state.params, endpoint, llm)
            c1 == [c EXCEPT !.stages = Append(@, "validate"),
                            !.llm_calls = @ + validated.calls,
                            !.validation = Some(validated.value)]
        IN  ResolvePortfolio(c1, endpoint)

\* Lines 338-344.
Validate(c, endpoint) ==
    \E llm \in (IF endpoint.validation_rules = <<>>
                THEN {NotCalled} ELSE ValidateCompletions(endpoint)) :
        LET validated == validate_parameters_with_llm(c.state.params, endpoint, llm)
            validation_errors == validated.value
            c1 == [c EXCEPT !.stages = Append(@, "validate"),
                            !.llm_calls = @ + validated.calls,
                            !.validation = Some(validation_errors)]
        IN  IF validation_errors # <<>>
            THEN Respond(c1, "invalid", msg_invalid(validation_errors))
            ELSE ResolvePortfolio(c1, endpoint)

\* Line 336: {k: v for k, v in state.params.items() if k in expected_params}
filter_params(params, endpoint) ==
    [k \in DOMAIN params \cap expected_params_of(endpoint) |-> params[k]]

\* Lines 331-336.
Merge(c, endpoint) ==
    \E llm \in (IF findall_kv(c.query) # <<>>
                THEN {NotCalled} ELSE MergeCompletions(endpoint)) :
        LET merged == merge_user_fix_into_state(c.query, c.state, endpoint, llm)
            \* what the merge assigns does not depend on the params already held
            assigned == merge_user_fix_into_state(
                            c.query, [c.state EXCEPT !.params = EmptyDict], endpoint, llm)
            c1 == [c EXCEPT !.stages = Append(@, "merge"),
                            !.llm_calls = @ + merged.calls,
                            !.supplied = @ \cup DOMAIN assigned.params,
                            !.state.params = merged.params]
        IN  IF merged.raised THEN Propagate(c1)
            ELSE Validate([c1 EXCEPT !.stages = Append(@, "filter"),
                                     !.state.params = filter_params(@, endpoint)],
                          endpoint)

\* Lines 327-329.
Extract(c, endpoint) ==
    \E llm \in (IF endpoint.parameters = <<>>
                THEN {NotCalled} ELSE ExtractCompletions(endpoint)) :
        LET extracted == extract_parameters_with_llm(c.query, endpoint, llm)
            c1 == [c EXCEPT !.stages = Append(@, "extract"),
                            !.llm_calls = @ + extracted.calls,
                            !.supplied = DOMAIN extracted.value]
        IN  IF extracted.raised THEN Propagate(c1)
            ELSE Merge([c1 EXCEPT !.state.params = update(@, extracted.value)], endpoint)

\* A variant of orchestrate_query without the fallback to the current endpoint.
orchestrate_query_no_fallback(c) ==
    LET c1 == [c EXCEPT
                 !.state.history = Append(@, [role |-> "user", content |-> c.query]),
                 !.stages = <<"match">>]
        endpoint == match_endpoint(c.query, c1.state.api_specs)
    IN  IF endpoint = None THEN Respond(c1, "clarify", MSG_clarify)
        ELSE Extract([c1 EXCEPT !.state.current_endpoint = endpoint], endpoint[1])

\* A variant of orchestrate_query that empties params when the endpoint it settles on
\* is not the session's current one.
orchestrate_query_clears_on_switch(c) ==
    LET c1 == [c EXCEPT
                 !.state.history = Append(@, [role |-> "user", content |-> c.query]),
                 !.stages = <<"match">>]
        matched == match_endpoint(c.query, c1.state.api_specs)
        endpoint == IF matched = None /\ c1.state.current_endpoint # None
                    THEN c1.state.current_endpoint
                    ELSE matched
    IN  IF endpoint = None THEN Respond(c1, "clarify", MSG_clarify)
        ELSE Extract([c1 EXCEPT !.state.current_endpoint = endpoint,
                                !.state.params =
                                    IF endpoint # c.state.current_endpoint
                                    THEN EmptyDict ELSE @],
                     endpoint[1])

\* Lines 310-325.
orchestrate_query(c) ==
    LET c1 == [c EXCEPT
                 !.state.history = Append(@, [role |-> "user", content |-> c.query]),
                 !.stages = <<"match">>]
        matched == match_endpoint(c.query, c1.state.api_specs)
        endpoint == IF matched = None /\ c1.state.current_endpoint # None
                    THEN c1.state.current_endpoint
                    ELSE matched
    IN  IF endpoint = None THEN Respond(c1, "clarify", MSG_clarify)
        ELSE Extract([c1 EXCEPT !.state.current_endpoint = endpoint], endpoint[1])

\* routes.py:11-26.  ConversationState() raises when find_one does, before the
\* session is stored.
process_query ==
    /\ turns < MaxTurns
    /\ \E request \in Requests :
       LET session_id == request.session_id
       IN
       \E load \in (IF session_id \in DOMAIN sessions THEN {"stored"} ELSE LoadOutcomes) :
          LET created == session_id \notin DOMAIN sessions
              stored_history ==
                  IF created THEN None ELSE Some(sessions[session_id].history)
              state == IF created
                       THEN ConversationState(IF load = "doc" THEN APIS ELSE <<>>)
                       ELSE sessions[session_id]
              entry == IF request.history # <<>>
                       THEN [state EXCEPT !.history = request.history]
                       ELSE state
              c == Request(session_id, request.query, created, stored_history, entry)
          IN  IF load = "error"
              THEN /\ last' = [c EXCEPT !.outcome = "raised", !.raised = TRUE]
                   /\ outcomes' = [outcomes EXCEPT ![session_id] = "raised"]
                   /\ turns' = turns + 1
                   /\ UNCHANGED <<sessions, probe, workers, heap>>
              ELSE orchestrate_query(c)

Next == process_query

Spec == Init /\ [][Next]_vars

---------------------------------------------------------------------------
(* match_endpoint on its own: one application to a query and a catalogue   *)
(* drawn from bounded sets.                                                *)

\* The characters of the probe queries.
ProbeChars == {"a", "A", "b", " ", "/"}

ProbeQueries == UNION {[1..n -> ProbeChars] : n \in 0..MaxProbeLen}

\* Three descriptors: one the query can hit by its name only ('a_b' is looked for as
\* 'a b'), one by its route only, one by its keyword only ('B' is looked for as 'b').
ProbeByName ==
    [name |-> <<"a", "_", "b">>, route |-> <<"/", "x">>, keywords |-> <<>>]

ProbeByRoute ==
    [name |-> <<"y">>, route |-> <<"/", "A">>, keywords |-> <<>>]

ProbeByKeyword ==
    [name |-> <<"z">>, route |-> <<"/", "z">>, keywords |-> <<<<"x", "x">>, <<"B">>>>]

ProbeDescriptors == {ProbeByName, ProbeByRoute, ProbeByKeyword}

ProbeCatalogues == UNION {[1..n -> ProbeDescriptors] : n \in 0..MaxProbeApis}

probe_match_endpoint ==
    /\ probe = NoProbe
    /\ \E user_query \in ProbeQueries, apis \in ProbeCatalogues :
         probe' = [op |-> "match_endpoint", query |-> user_query, apis |-> apis,
                   result |-> match_endpoint(user_query, [apis |-> apis])]
    /\ UNCHANGED <<sessions, last, outcomes, turns, workers, heap>>

NextMatch == probe_match_endpoint

SpecMatch == Init /\ [][NextMatch]_vars

---------------------------------------------------------------------------
(* Properties.  They read the record of the latest request (last) and the  *)
(* session store.                                                          *)

\* orchestrate_query was entered by the latest request.
Orchestrated == last.stages # <<>>

\* The endpoint the latest request worked on, once it had one.
EndpointOf(state) == state.current_endpoint[1]

\* The params call_api sent, in the query string or in the body.
SentParams(request) == IF request.params # None THEN request.params[1] ELSE request.json[1]

EntityParams == {S_portfolio_name, S_benchmark_name}

\* Whether the check of an entity name answered exists = true without an error.
Confirmed(check) ==
    /\ ~Truthy(Get(check.result, S_error, JNull))
    /\ Truthy(Get(check.result, S_exists, JNull))

\* C1: the endpoint is invoked only when, in the same turn, the validator returned no
\* errors, every entity name among the params was resolved with exists = true and no
\* error, and find_missing_params returned an empty list: every required parameter
\* of the endpoint is among the params sent.
C1_InvokeOnlyWhenReady ==
    last.request # None =>
        LET endpoint == EndpointOf(last.state)
            sent == SentParams(last.request[1])
        IN  /\ last.validation = Some(<<>>)
            /\ last.missing = Some(<<>>)
            /\ \A i \in 1..Len(endpoint.parameters) :
                   endpoint.parameters[i].required =>
                       endpoint.parameters[i].name \in DOMAIN sent
            /\ \A p \in EntityParams \cap DOMAIN sent :
                   \E i \in 1..Len(last.checks) :
                       last.checks[i].param = p /\ Confirmed(last.checks[i])

\* C1's case: the endpoint was invoked, after a validator that consulted the
\* completion capability.
C1_Witness ==
    /\ last.request # None
    /\ last.outcome = "api_ok"
    /\ EndpointOf(last.state).validation_rules # <<>>
    /\ last.llm_calls >= 2

\* Whether the catalogue lists, up to case, the name a check was made for.
Listed(check) ==
    LET names == IF check.param = S_portfolio_name THEN PortfolioNames ELSE BenchmarkNames
    IN  /\ check.mongo = "doc"
        /\ check.name.t = "str"
        /\ \E i \in 1..Len(names) : lower(names[i]) = lower(check.name.v)

\* The catalogue's spelling of the name a check was made for.
Canonical(check) ==
    LET names == IF check.param = S_portfolio_name THEN PortfolioNames ELSE BenchmarkNames
    IN  names[CHOOSE i \in 1..Len(names) : lower(names[i]) = lower(check.name.v)]

\* C2: when one turn supplies every required parameter of the endpoint, the
\* validator reports nothing and the catalogue lists every entity name given, the
\* endpoint is invoked (once) with exactly the session's filtered params, and when
\* the call succeeds the response reports the session cleared.
C2_EndToEnd ==
    ( /\ Orchestrated
      /\ last.created
      /\ last.validation = Some(<<>>)
      /\ find_missing_params(last.state.params, EndpointOf(last.state)) = <<>>
      /\ \A p \in EntityParams \cap DOMAIN last.state.params :
             \E i \in 1..Len(last.checks) :
                 last.checks[i].param = p /\ Listed(last.checks[i]) )
    => /\ last.request # None
       /\ SentParams(last.request[1]) = last.state.params
       /\ ~error_in(last.api[1]) =>
              last.session_cleared /\ last.session_id \notin DOMAIN sessions

\* C3: when the catalogue lists a name equal to the candidate up to case, the
\* resolver answers exists = true with matched the catalogue's spelling, the param
\* is rewritten to that spelling, and the turn goes on to the completeness check.
C3_CanonicalRewrite ==
    \A i \in 1..Len(last.checks) :
        Listed(last.checks[i]) =>
            /\ Confirmed(last.checks[i])
            /\ Get(last.checks[i].result, S_matched, JNull) = JStr(Canonical(last.checks[i]))
            /\ last.state.params[last.checks[i].param] = JStr(Canonical(last.checks[i]))
            /\ last.missing # None

\* C4: the session is reset only after a turn whose endpoint call succeeded; after
\* any other turn that returned a message the session's state is still stored,
\* whatever text the message holds.
C4_ResetOnlyAfterSuccess ==
    last.response # None =>
        /\ last.session_cleared <=> last.outcome = "api_ok"
        /\ last.outcome # "api_ok" =>
               /\ last.session_id \in DOMAIN sessions
               /\ sessions[last.session_id] = last.state

\* C5: the turn that follows, on the same session id, a turn whose endpoint call
\* succeeded starts from a fresh state: no current endpoint, no params.
C5_FreshAfterSuccess ==
    (last.outcome # "init" /\ last.previous = "api_ok") =>
        /\ last.created
        /\ last.entry.current_endpoint = None
        /\ last.entry.params = EmptyDict

\* C5's case: a session's turn succeeded and its next turn got as far as the
\* completeness check of an endpoint.
C5_Witness ==
    /\ last.previous = "api_ok"
    /\ last.outcome = "missing"

\* C6: at every turn boundary, whether orchestrate_query returned or raised, the
\* params of every stored session hold only keys its current endpoint declares (and
\* none while it has no endpoint).
C6_ParamsDeclared ==
    \A k \in DOMAIN sessions :
        IF sessions[k].current_endpoint = None
        THEN sessions[k].params = EmptyDict
        ELSE DOMAIN sessions[k].params \subseteq expected_params_of(EndpointOf(sessions[k]))

\* The case of C7 and C10: no descriptor of the session's catalogue matches the query.
NoMatch == Orchestrated /\ match_endpoint(last.query, last.entry.api_specs) = None

UserEntry == [role |-> "user", content |-> last.query]

\* C7 as stated: with no match and no prior endpoint the turn returns the
\* clarification and the session's state is as before, but for the user entry
\* appended to its history.
C7_ClarifyAddsUserEntryOnly ==
    (NoMatch /\ last.entry.current_endpoint = None) =>
        /\ last.response = Some(MSG_clarify)
        /\ last.state.current_endpoint = None
        /\ last.state.params = last.entry.params
        /\ last.state.history = Append(last.entry.history, UserEntry)

\* C7, amended: with no match and no prior endpoint the turn returns the
\* clarification; the stored state keeps no endpoint and its params, and its history
\* gains the user entry and the assistant's clarification.
C7_ClarifyKeepsEndpointAndParams ==
    (NoMatch /\ last.entry.current_endpoint = None) =>
        /\ last.response = Some(MSG_clarify)
        /\ last.state.current_endpoint = None
        /\ last.state.params = last.entry.params
        /\ last.state.history =
               last.entry.history
               \o <<UserEntry, [role |-> "assistant", content |-> MSG_clarify]>>
        /\ last.session_id \in DOMAIN sessions
        /\ sessions[last.session_id] = last.state

\* C7's case: a query that matches nothing in a loaded catalogue, in a session with
\* no endpoint.
C7_Witness ==
    /\ NoMatch
    /\ last.entry.api_specs.apis # <<>>
    /\ last.entry.current_endpoint = None
    /\ last.outcome = "clarify"

\* C8: no failure of a collaborator is fatal: a turn that entered orchestrate_query
\* ends with a message, never with an exception.
C8_NeverRaises == Orchestrated => (~last.raised /\ last.response # None)

\* C10: when no descriptor matches and the session has a current endpoint, the turn
\* goes on with that endpoint (the current endpoint unchanged, the params
\* accumulated for it kept); the clarification is returned only when there is
\* neither a match nor a current endpoint.
C10_FallbackToCurrentEndpoint ==
    /\ (NoMatch /\ last.entry.current_endpoint # None) =>
           /\ last.state.current_endpoint = last.entry.current_endpoint
           /\ last.outcome # "clarify"
           /\ Len(last.stages) >= 2 /\ last.stages[2] = "extract"
           /\ \A k \in DOMAIN last.entry.params \cap
                           expected_params_of(EndpointOf(last.entry)) :
                  k \in DOMAIN last.state.params
    /\ last.outcome = "clarify" => (NoMatch /\ last.entry.current_endpoint = None)

\* C10's case: a turn without a match completes the params of the endpoint an
\* earlier turn chose, and the endpoint is invoked.
C10_Witness ==
    /\ NoMatch
    /\ last.entry.current_endpoint # None
    /\ last.entry.params # EmptyDict
    /\ last.request # None

\* Whether the lower-cased query holds the descriptor's name (underscores as
\* spaces), its route or one of its keywords, each lower-cased.
Hit(api, user_query) ==
    LET query == lower(user_query)
    IN  \/ Contains(replace(lower(api.name), "_", " "), query)
        \/ Contains(lower(api.route), query)
        \/ \E i \in 1..Len(api.keywords) : Contains(lower(api.keywords[i]), query)

\* C9: match_endpoint returns the first descriptor, in catalogue order, that the
\* query hits by name, route or keyword, whichever of the three it is, and None when
\* the query hits none.
C9_FirstMatchWins ==
    probe.op = "match_endpoint" =>
        LET hits == {i \in 1..Len(probe.apis) : Hit(probe.apis[i], probe.query)}
        IN  IF hits = {} THEN probe.result = None
            ELSE \E i \in hits :
                    /\ \A j \in hits : i <= j
                    /\ probe.result = Some(probe.apis[i])

\* C9's case: the first descriptor is hit by its keyword only, the second by its
\* name, and the first is returned.
C9_Witness ==
    /\ probe.op = "match_endpoint"
    /\ probe.apis = <<ProbeByKeyword, ProbeByName>>
    /\ probe.query = <<"A", " ", "b">>
    /\ probe.result = Some(ProbeByKeyword)

---------------------------------------------------------------------------
(* The functions orchestrate_query calls, each on its own: one application *)
(* to arguments drawn from bounded sets.                                   *)

\* 'end_date'
S_end_date == <<"e", "n", "d", "_", "d", "a", "t", "e">>

ProbeParamNames == {S_start_date, S_end_date, S_period}

\* The endpoints the functions are probed with: every parameter list of up to
\* MaxProbeParams entries over three names, each entry required or not.
ProbeParameterSpecs == {ParameterSpec(name, required) : name \in ProbeParamNames,
                                                        required \in BOOLEAN}

ProbeParameterLists == UNION {[1..n -> ProbeParameterSpecs] : n \in 0..MaxProbeParams}

\* The params the functions are probed with: every dict over the three names and an
\* undeclared one, each value '1Y'.
ProbeParams == {[k \in keys |-> JStr(V_1Y)] : keys \in SUBSET (ProbeParamNames \cup {S_foo})}

probe_find_missing_params ==
    /\ probe = NoProbe
    /\ \E parameters \in ProbeParameterLists, params \in ProbeParams :
         probe' = [op |-> "find_missing_params", params |-> params,
                   endpoint |-> [parameters |-> parameters],
                   result |-> find_missing_params(params, [parameters |-> parameters])]
    /\ UNCHANGED <<sessions, last, outcomes, turns, workers, heap>>

NextMissing == probe_find_missing_params

SpecMissing == Init /\ [][NextMissing]_vars

\* The positions of the endpoint's required parameters that are no key of params.
MissingAt(params, endpoint) ==
    {i \in 1..Len(endpoint.parameters) :
        endpoint.parameters[i].required /\ endpoint.parameters[i].name \notin DOMAIN params}

\* The k-th smallest element of a set of numbers.
Kth(S, k) == CHOOSE i \in S : Cardinality({j \in S : j < i}) = k - 1

\* C11: find_missing_params returns exactly the names of the endpoint's required
\* parameters that are no keys of params, in the endpoint's declared order.
C11_MissingInDeclaredOrder ==
    probe.op = "find_missing_params" =>
        LET at == MissingAt(probe.params, probe.endpoint)
        IN  /\ Len(probe.result) = Cardinality(at)
            /\ \A k \in 1..Len(probe.result) :
                   probe.result[k] = probe.endpoint.parameters[Kth(at, k)].name

\* C11's case: params = {} and required [start_date, end_date] give
\* [start_date, end_date].
C11_Witness ==
    /\ probe.op = "find_missing_params"
    /\ probe.params = EmptyDict
    /\ probe.endpoint.parameters =
           <<ParameterSpec(S_start_date, TRUE), ParameterSpec(S_end_date, TRUE)>>
    /\ probe.result = <<S_start_date, S_end_date>>

\* The JSON values the completion capability is made to answer with, whichever
\* prompt it is given: objects of the shape each prompt asks for, with and without
\* null, 'null' and non-string values, and values that are no objects.
ProbeJson ==
    { JNull,
      JStr(V_1Y),
      JList(<<JStr(S_start_date)>>),
      JObj(<<>>),
      JObj(<< <<S_start_date, JStr(S_null)>> >>),
      JObj(<< <<S_start_date, JStr(V_date)>>, <<S_period, JNull>> >>),
      JObj(<< <<S_start_date, JStr(<<"N", "u", "l", "l">>)>>, <<S_period, JStr(V_1Y)>> >>),
      JObj(<< <<S_start_date, JStr(V_date)>>, <<S_period, JNum(<<"5">>)>> >>),
      JObj(<< <<S_start_date, JStr(<<>>)>>, <<S_foo, JStr(<<"x">>)>> >>),
      JObj(<< <<S_validation_errors, JObj(<<>>)>> >>),
      JObj(<< <<S_validation_errors, JObj(<< <<S_start_date, JStr(<<"b", "a", "d">>)>> >>)>> >>),
      JObj(<< <<S_validation_errors, JList(<<JStr(S_start_date)>>)>> >>),
      JObj(<< <<S_param, JStr(S_period)>>, <<S_value, JStr(V_3M)>> >>),
      JObj(<< <<S_param, JStr(S_foo)>>, <<S_value, JStr(<<"x">>)>> >>),
      JObj(<< <<S_matched, JStr(PortfolioNames[1])>>, <<S_closest, JList(<<>>)>> >>),
      JObj(<< <<S_matched, JNull>>,
              <<S_closest, JList(<<JStr(PortfolioNames[1]), JStr(PortfolioNames[2])>>)>> >>) }

\* The completions: a failure, text that is no JSON, each JSON value bare and fenced.
ProbeCompletions ==
    {Raises, Malformed} \cup {Text(fenced, x) : fenced \in BOOLEAN, x \in ProbeJson}

\* The validation rules the validator is probed with: none, one, two.
ProbeRules ==
    { <<>>,
      << <<S_start_date, <<"I", "S", "O">> >> >>,
      << <<S_start_date, <<"I", "S", "O">> >>, <<S_period, <<"1", "Y">> >> >> }

probe_validate_parameters_with_llm ==
    /\ probe = NoProbe
    /\ \E validation_rules \in ProbeRules, params \in ProbeParams, llm \in ProbeCompletions :
         probe' = [op |-> "validate_parameters_with_llm", params |-> params,
                   endpoint |-> [validation_rules |-> validation_rules], llm |-> llm,
                   result |-> validate_parameters_with_llm(
                                  params, [validation_rules |-> validation_rules], llm)]
    /\ UNCHANGED <<sessions, last, outcomes, turns, workers, heap>>

NextValidate == probe_validate_parameters_with_llm

SpecValidate == Init /\ [][NextValidate]_vars

\* C12: for an endpoint whose validation rules are empty or absent the validator
\* returns no errors and makes no completion call, whatever the params.
C12_NoRulesNoCall ==
    (probe.op = "validate_parameters_with_llm" /\ probe.endpoint.validation_rules = <<>>) =>
        /\ probe.result.value = <<>>
        /\ probe.result.calls = 0

\* C12's case: no rules, params given, and a completion that would have reported a
\* violation had it been asked.
C12_Witness ==
    /\ probe.op = "validate_parameters_with_llm"
    /\ probe.endpoint.validation_rules = <<>>
    /\ S_start_date \in DOMAIN probe.params
    /\ probe.llm = Text(FALSE, JObj(<< <<S_validation_errors,
                          JObj(<< <<S_start_date, JStr(<<"b", "a", "d">>)>> >>)>> >>))
    /\ probe.result.calls = 0

\* The key=value tokens merge_user_fix_into_state is probed with: a declared or an
\* undeclared key, '=' with or without blanks around it, a value of word characters
\* and hyphens.
ProbeTokens ==
    [key : {S_start_date, S_period, S_foo},
     eq : {<<"=">>, <<" ", "=", " ">>},
     value : {V_date, V_3M}]

ProbeTokenLists == UNION {[1..n -> ProbeTokens] : n \in 1..MaxProbeTokens}

\* The text that holds the tokens, ', ' between them.
TokenText(tokens) ==
    join(S_comma, [i \in 1..Len(tokens) |-> tokens[i].key \o tokens[i].eq \o tokens[i].value])

probe_merge_user_fix_into_state ==
    /\ probe = NoProbe
    /\ \E tokens \in ProbeTokenLists,
          params \in {EmptyDict, [k \in {S_period, S_foo} |-> JStr(V_1Y)]},
          parameters \in {Returns.parameters, <<ParameterSpec(S_period, TRUE)>>},
          llm \in {Raises, Text(FALSE, JObj(<< <<S_param, JStr(S_period)>>,
                                              <<S_value, JStr(V_1Y)>> >>))} :
         probe' = [op |-> "merge_user_fix_into_state", tokens |-> tokens,
                   user_input |-> TokenText(tokens), params |-> params,
                   endpoint |-> [parameters |-> parameters], llm |-> llm,
                   result |-> merge_user_fix_into_state(
                                  TokenText(tokens), [params |-> params],
                                  [parameters |-> parameters], llm)]
    /\ UNCHANGED <<sessions, last, outcomes, turns, workers, heap>>

NextMerge == probe_merge_user_fix_into_state

SpecMerge == Init /\ [][NextMerge]_vars

\* The position of the last token with key k.
LastToken(tokens, k) ==
    CHOOSE i \in 1..Len(tokens) :
        tokens[i].key = k /\ \A j \in (i + 1)..Len(tokens) : tokens[j].key # k

\* C13: on text that holds key=value tokens, merge_user_fix_into_state sets
\* params[key] = value for each token whose key the endpoint declares (the last such
\* token of a key deciding), leaves every other entry as it was, adds no key the
\* endpoint does not declare, and makes no completion call.
C13_MergeKeyValueTokens ==
    probe.op = "merge_user_fix_into_state" =>
        LET declared == expected_params_of(probe.endpoint)
            given == {probe.tokens[i].key : i \in 1..Len(probe.tokens)} \cap declared
        IN  /\ ~probe.result.raised
            /\ probe.result.calls = 0
            /\ DOMAIN probe.result.params = DOMAIN probe.params \cup given
            /\ \A k \in given :
                   probe.result.params[k] =
                       JStr(probe.tokens[LastToken(probe.tokens, k)].value)
            /\ \A k \in DOMAIN probe.params \ given :
                   probe.result.params[k] = probe.params[k]

\* C13's case: 'start_date=2023-01-01' against an endpoint that declares start_date
\* sets start_date to '2023-01-01'.
C13_Witness ==
    /\ probe.op = "merge_user_fix_into_state"
    /\ probe.user_input = S_start_date \o <<"=">> \o V_date
    /\ probe.params = EmptyDict
    /\ probe.endpoint.parameters = Returns.parameters
    /\ probe.result.params = [k \in {S_start_date} |-> JStr(V_date)]
    /\ probe.result.calls = 0

probe_extract_parameters_with_llm ==
    /\ probe = NoProbe
    /\ \E user_query \in Queries,
          parameters \in {Returns.parameters, <<ParameterSpec(S_period, TRUE)>>},
          llm \in ProbeCompletions :
         probe' = [op |-> "extract_parameters_with_llm", user_query |-> user_query,
                   endpoint |-> [parameters |-> parameters], llm |-> llm,
                   result |-> extract_parameters_with_llm(
                                  user_query, [parameters |-> parameters], llm)]
    /\ UNCHANGED <<sessions, last, outcomes, turns, workers, heap>>

NextExtract == probe_extract_parameters_with_llm

SpecExtract == Init /\ [][NextExtract]_vars

\* Whether a JSON value is null or the string 'null' in some letter case.
IsNullEntry(x) == x.t = "null" \/ (x.t = "str" /\ lower(x.v) = S_null)

\* C14: extract_parameters_with_llm returns exactly the entries of the completion's
\* JSON object whose value is neither null nor 'null' in any letter case, and an
\* empty mapping when the completion does not parse or is no JSON object; a null or
\* non-string entry does not lose the other entries.
C14_ExtractDropsNullsOnly ==
    (probe.op = "extract_parameters_with_llm" /\ ~probe.llm.raises) =>
        LET parsed == probe.llm.json
        IN  IF parsed = None \/ ~IsDict(parsed[1])
            THEN probe.result.value = EmptyDict
            ELSE LET kept == {i \in 1..Len(parsed[1].v) : ~IsNullEntry(parsed[1].v[i][2])}
                 IN  /\ DOMAIN probe.result.value = {parsed[1].v[i][1] : i \in kept}
                     /\ \A i \in kept :
                            probe.result.value[parsed[1].v[i][1]] = parsed[1].v[i][2]

\* 'Gamma'
V_gamma == <<"G", "a", "m", "m", "a">>

probe_check_name_in_db ==
    /\ probe = NoProbe
    /\ last = NoRequest
    /\ \E name \in {JStr(V_alpha), JStr(V_gamma)},
          name_type \in {S_portfolio, S_benchmark, name_type_of(S_portfolio_name)},
          mongo \in MongoOutcomes,
          llm \in ProbeCompletions :
         probe' = [op |-> "check_name_in_db", name |-> name, name_type |-> name_type,
                   mongo |-> mongo, llm |-> llm,
                   result |-> check_name_in_db(name, name_type, mongo, llm)]
    /\ UNCHANGED <<sessions, last, outcomes, turns, workers, heap>>

\* check_name_in_db on its own, or requests.
NextResolve ==
    \/ probe_check_name_in_db
    \/ (probe = NoProbe /\ process_query)

SpecResolve == Init /\ [][NextResolve]_vars

\* Whether a result of check_name_in_db is an error result.
IsErrorResult(x) == IsDict(x) /\ HasKey(x, S_error) /\ Truthy(GetItem(x, S_error))

\* C15: entity resolution is fail-closed.  check_name_in_db returns an error result
\* whenever the catalogue lookup fails, the completion call fails or the completion
\* does not parse, and exists = false, matched = none, closest = [] without a
\* completion call when the reference list is empty; a turn whose check returned an
\* error result ends with that error and never calls the invoker.
C15_ResolutionFailClosed ==
    /\ probe.op = "check_name_in_db" =>
           LET lookup_failed == probe.mongo \in {"unavailable", "error"}
               no_names == all_names_of(probe.name_type, probe.mongo) = <<>>
           IN  /\ lookup_failed =>
                      IsErrorResult(probe.result.value) /\ probe.result.calls = 0
               /\ (~lookup_failed /\ no_names) =>
                      /\ probe.result.value = NameResult(FALSE, JNull, JList(<<>>))
                      /\ probe.result.calls = 0
               /\ (~lookup_failed /\ ~no_names
                      /\ (probe.llm.raises \/ probe.llm.fenced \/ probe.llm.json = None)) =>
                      IsErrorResult(probe.result.value) /\ probe.result.calls = 1
    /\ \A i \in 1..Len(last.checks) :
           IsErrorResult(last.checks[i].result) =>
               /\ i = Len(last.checks)
               /\ last.request = None
               /\ last.response =
                      Some(MSG_error_checking \o last.checks[i].name_type \o S_colon
                           \o GetItem(last.checks[i].result, S_error).v)

\* C15's case: the catalogue lists names, the completion call fails, and the result
\* is an error.
C15_Witness ==
    /\ probe.op = "check_name_in_db"
    /\ probe.mongo = "doc"
    /\ probe.name_type = S_portfolio
    /\ probe.llm.raises
    /\ IsErrorResult(probe.result.value)

\* C16: a session's history is append-only until the session is reset: the history
\* stored before a turn is a prefix of the history after it, and the first entry the
\* turn appends is the user's text.
C16_HistoryAppendOnly ==
    (last.outcome # "init" /\ last.stored_history # None) =>
        LET before == last.stored_history[1]
            after == last.state.history
        IN  /\ Len(after) > Len(before)
            /\ SubSeq(after, 1, Len(before)) = before
            /\ after[Len(before) + 1] = UserEntry

\* C17: sessions are independent.  A turn leaves the state of every session other
\* than its own as it was, and requests that carry no session id do not share a
\* conversation: such a request does not start from the endpoint and params an
\* earlier one accumulated.
C17_SessionsIndependent ==
    [][ /\ \A k \in DOMAIN sessions :
               k # last'.session_id => (k \in DOMAIN sessions' /\ sessions'[k] = sessions[k])
        /\ last'.session_id = NoSessionId =>
               /\ last'.entry.current_endpoint = None
               /\ last'.entry.params = EmptyDict ]_vars

---------------------------------------------------------------------------
(* process_query run by two worker threads, one statement at a time.  Here *)
(* sessions binds a key to the identity of a ConversationState object and  *)
(* heap holds the objects; of orchestrate_query the steps kept are the two *)
(* appends to state.history and the message returned.                      *)

\* The number of requests the workers take up.
MaxOverlapRequests == 2

\* The requests the clients send while others are being handled.
OverlapRequests ==
    {QueryRequest(k, q, NoHistory) : k \in SessionIds, q \in {Q_returns, Q_fix}}

\* Messages orchestrate_query returns: a clarification (line 321) and a completion
\* (line 384).
OverlapMessages ==
    {MSG_clarify, msg_api_ok(SharpeRatio, JObj(<< <<S_value, JNum(<<"1">>)>> >>))}

\* A worker takes up a request: session_id = getattr(request, "session_id", ...)
\* (routes.py:13).  Nothing makes it wait for a request of the same session.
receive ==
    /\ turns < MaxOverlapRequests
    /\ \E w \in Workers, request \in OverlapRequests :
          /\ workers[w].pc = "idle"
          /\ workers' = [workers EXCEPT ![w] =
                [pc |-> "line16", request |-> Some(request), state |-> None,
                 outcome |-> "running"]]
    /\ turns' = turns + 1
    /\ UNCHANGED <<sessions, last, outcomes, probe, heap>>

\* routes.py:16: if session_id not in sessions
line16 ==
    /\ \E w \in Workers :
          /\ workers[w].pc = "line16"
          /\ workers' = [workers EXCEPT ![w].pc =
                IF workers[w].request[1].session_id \notin DOMAIN sessions
                THEN "line17" ELSE "line19"]
    /\ UNCHANGED <<sessions, last, outcomes, turns, probe, heap>>

\* routes.py:17: sessions[session_id] = ConversationState().  The constructor reads
\* the catalogue from Mongo; if that raises, so does the handler.
line17 ==
    /\ \E w \in Workers, load \in LoadOutcomes :
          /\ workers[w].pc = "line17"
          /\ IF load = "error"
             THEN /\ workers' = [workers EXCEPT ![w] =
                        [Idle EXCEPT !.outcome = "raised"]]
                  /\ UNCHANGED <<sessions, heap>>
             ELSE /\ heap' = Append(heap,
                        ConversationState(IF load = "doc" THEN APIS ELSE <<>>))
                  /\ sessions' = Store(workers[w].request[1].session_id, Len(heap) + 1)
                  /\ workers' = [workers EXCEPT ![w].pc = "line19"]
    /\ UNCHANGED <<last, outcomes, turns, probe>>

\* routes.py:19: state = sessions[session_id], a KeyError if the key is gone.
line19 ==
    /\ \E w \in Workers :
          /\ workers[w].pc = "line19"
          /\ LET session_id == workers[w].request[1].session_id
             IN  workers' = [workers EXCEPT ![w] =
                    IF session_id \in DOMAIN sessions
                    THEN [@ EXCEPT !.pc = "line26", !.state = Some(sessions[session_id])]
                    ELSE [Idle EXCEPT !.outcome = "raised"]]
    /\ UNCHANGED <<sessions, last, outcomes, turns, probe, heap>>

\* routes.py:26 and orchestrator.py:311: orchestrate_query is entered and appends the
\* user's entry to the history of the object the worker holds.
line26 ==
    /\ \E w \in Workers :
          /\ workers[w].pc = "line26"
          /\ heap' = [heap EXCEPT ![workers[w].state[1]].history =
                Append(@, [role |-> "user", content |-> workers[w].request[1].query])]
          /\ workers' = [workers EXCEPT ![w].pc = "line29"]
    /\ UNCHANGED <<sessions, last, outcomes, turns, probe>>

\* orchestrate_query appends the assistant's entry and returns; routes.py:29-33 pops
\* the session's key if the message looks like a completion, and the handler returns.
line29 ==
    /\ \E w \in Workers, msg \in OverlapMessages :
          LET session_id == workers[w].request[1].session_id
          IN  /\ workers[w].pc = "line29"
              /\ heap' = [heap EXCEPT ![workers[w].state[1]].history =
                    Append(@, [role |-> "assistant", content |-> msg])]
              /\ sessions' = IF is_completed_of(msg)
                             THEN [k \in DOMAIN sessions \ {session_id} |-> sessions[k]]
                             ELSE sessions
              /\ workers' = [workers EXCEPT ![w] = [Idle EXCEPT !.outcome =
                    IF is_completed_of(msg) THEN "completed" ELSE "returned"]]
    /\ UNCHANGED <<last, outcomes, turns, probe>>

NextOverlap == receive \/ line16 \/ line17 \/ line19 \/ line26 \/ line29

SpecOverlap == Init /\ [][NextOverlap]_vars

\* The session a busy worker's request belongs to.
SessionOf(w) == workers[w].request[1].session_id

Busy(w) == workers[w].pc # "idle"

\* The worker is past line 19 and holds a state object.
InTurn(w) == workers[w].pc \in {"line26", "line29"}

\* C18: turns of one session are processed strictly one at a time: no two workers
\* are inside the handler for the same session id at once, and so no worker runs its
\* turn on a state object that is no longer the one stored for its session.
C18_TurnsOneAtATime ==
    /\ \A w1, w2 \in Workers :
          (w1 # w2 /\ Busy(w1) /\ Busy(w2)) => SessionOf(w1) # SessionOf(w2)
    /\ \A w \in Workers :
          InTurn(w) => /\ SessionOf(w) \in DOMAIN sessions
                       /\ sessions[SessionOf(w)] = workers[w].state[1]

---------------------------------------------------------------------------
(* orchestrate_query called as the tests call it, with the query alone.    *)

\* def orchestrate_query(user_query: str, state: ConversationState): two required
\* positional parameters, no defaults (orchestrator.py:302).
orchestrate_query_parameters == <<"user_query", "state">>

\* orchestrate_query(*args): Python binds the arguments before the body runs and
\* raises TypeError if a required parameter is left without one; then nothing of the
\* body runs, no executor is called and no value is returned.
probe_call_orchestrate_query ==
    /\ probe = NoProbe
    /\ \E user_query \in ProbeQueries :
          LET args == <<user_query>>
              raised == Len(args) < Len(orchestrate_query_parameters)
          IN  /\ raised
              /\ probe' = [op |-> "orchestrate_query", query |-> user_query,
                           args |-> args, raised |-> raised, nl_queries |-> <<>>,
                           posts |-> 0, result |-> None]
    /\ UNCHANGED <<sessions, last, outcomes, turns, workers, heap>>

NextCall == probe_call_orchestrate_query

SpecCall == Init /\ [][NextCall]_vars

\* C19: orchestrate_query, called with only the user's query, returns a mapping with
\* the classified intent and the row count, after calling the natural-language query
\* executor exactly once with that query.
C19_QueryOnlyCallRunsExecutor ==
    probe.op = "orchestrate_query" =>
        /\ ~probe.raised
        /\ probe.nl_queries = <<probe.query>>
        /\ probe.result # None

\* The request matched an endpoint other than the one the session was on.
Switched ==
    /\ last.outcome # "init"
    /\ last.entry.current_endpoint # None
    /\ last.state.current_endpoint # None
    /\ EndpointOf(last.state).name # EndpointOf(last.entry).name

\* The request got as far as the filter of line 336.
Filtered == \E i \in 1..Len(last.stages) : last.stages[i] = "filter"

\* C20 as stated: when a turn matches an endpoint different from the session's
\* current endpoint, every slot collected for the abandoned endpoint is discarded:
\* params holds only values supplied in the switching turn.
C20_SwitchDiscardsAll ==
    Switched => DOMAIN last.state.params \subseteq last.supplied

\* C20, amended: when a turn matches a different endpoint and reaches the filter, a
\* slot collected for the abandoned endpoint is kept if the new endpoint declares a
\* parameter of that name and discarded if it does not; a slot the turn did not
\* assign keeps its value up to the canonical name the resolver may put in its place.
C20_SwitchKeepsDeclaredSlots ==
    (Switched /\ Filtered) =>
        /\ DOMAIN last.state.params \subseteq expected_params_of(EndpointOf(last.state))
        /\ \A k \in DOMAIN last.entry.params :
              k \in DOMAIN last.state.params <=>
                  k \in expected_params_of(EndpointOf(last.state))
        /\ \A k \in (DOMAIN last.entry.params \cap DOMAIN last.state.params)
                        \ (last.supplied \cup EntityParams) :
              last.state.params[k] = last.entry.params[k]

\* A switch after which a slot of the abandoned endpoint is still held, not assigned
\* by the switching turn, and another slot of it is gone.
C20_Witness ==
    /\ Switched
    /\ Filtered
    /\ \E k \in DOMAIN last.entry.params \cap DOMAIN last.state.params :
          k \notin last.supplied /\ last.state.params[k] = last.entry.params[k]
    /\ \E k \in DOMAIN last.entry.params : k \notin DOMAIN last.state.params

\* The completion did not come back as text that parses to a JSON object.
NoObjectAnswer(llm) ==
    \/ llm.raises
    \/ loads_unfenced(llm) = None
    \/ ~IsDict(loads_unfenced(llm)[1])

\* C21: parameters absent from params are never evaluated by validation: every key
\* of the errors validate_parameters_with_llm returns is a key of the params it was
\* given; and a capability failure, a parse failure or an answer that is no object
\* yields no errors.
C21_ValidatesOnlyGivenParams ==
    probe.op = "validate_parameters_with_llm" =>
        /\ \A i \in 1..Len(probe.result.value) :
              probe.result.value[i][1] \in DOMAIN probe.params
        /\ NoObjectAnswer(probe.llm) => probe.result.value = <<>>

---------------------------------------------------------------------------
(* merge_user_fix_into_state on text with and without key=value tokens,    *)
(* against each answer of the completion.                                  *)

\* 'foo=x': one token, of a key no endpoint declares.
Q_undeclared == <<"f", "o", "o", "=", "x">>

\* Answers that name a param and no value, and a param that is no string.
CorrectionCompletions ==
    ProbeCompletions
    \cup { Text(FALSE, JObj(<< <<S_param, JStr(S_period)>> >>)),
           Text(FALSE, JObj(<< <<S_param, JList(<<JStr(S_period)>>)>>,
                               <<S_value, JStr(V_3M)>> >>)) }

probe_correction ==
    /\ probe = NoProbe
    /\ \E user_input \in Queries \cup {Q_undeclared},
          params \in {EmptyDict, [k \in {S_period, S_foo} |-> JStr(V_1Y)]},
          parameters \in {Returns.parameters, <<ParameterSpec(S_period, TRUE)>>},
          llm \in CorrectionCompletions :
         probe' = [op |-> "correction", user_input |-> user_input, params |-> params,
                   endpoint |-> [parameters |-> parameters], llm |-> llm,
                   result |-> merge_user_fix_into_state(
                                  user_input, [params |-> params],
                                  [parameters |-> parameters], llm)]
    /\ UNCHANGED <<sessions, last, outcomes, turns, workers, heap>>

NextCorrection == probe_correction

SpecCorrection == Init /\ [][NextCorrection]_vars

\* The completion's answer is an object whose param is a name the endpoint declares.
NamesDeclared(llm, endpoint) ==
    /\ ~llm.raises
    /\ ~llm.fenced
    /\ llm.json # None
    /\ IsDict(llm.json[1])
    /\ HasKey(llm.json[1], S_param)
    /\ GetItem(llm.json[1], S_param).t = "str"
    /\ GetItem(llm.json[1], S_param).v \in expected_params_of(endpoint)

\* The answer is text that is no JSON, or an object that lacks param or value.
Unusable(llm) ==
    /\ ~llm.raises
    /\ \/ llm.fenced
       \/ llm.json = None
       \/ ~IsDict(llm.json[1])
       \/ ~HasKey(llm.json[1], S_param)
       \/ ~HasKey(llm.json[1], S_value)

\* C22: the correction merger calls the completion capability exactly when the text
\* holds no key=value token, so text whose only tokens name undeclared keys triggers
\* no call and changes nothing; the answer is applied only when it is an object whose
\* param is a declared parameter name, and an unparsable or incomplete answer leaves
\* params unchanged without raising.
C22_CorrectionBestEffort ==
    probe.op = "correction" =>
        LET matches == findall_kv(probe.user_input)
            declared == expected_params_of(probe.endpoint)
        IN  /\ probe.result.calls = (IF matches = <<>> THEN 1 ELSE 0)
            /\ (matches # <<>> /\ \A i \in 1..Len(matches) : matches[i].key \notin declared)
                   => probe.result.params = probe.params
            /\ (matches = <<>> /\ probe.result.params # probe.params)
                   => NamesDeclared(probe.llm, probe.endpoint)
            /\ (matches = <<>> /\ Unusable(probe.llm))
                   => (~probe.result.raised /\ probe.result.params = probe.params)

\* C22's cases: text without a token and an answer naming a declared param, applied
\* after one call.
C22_Witness ==
    /\ probe.op = "correction"
    /\ probe.user_input = Q_gain
    /\ probe.params = EmptyDict
    /\ probe.endpoint.parameters = Returns.parameters
    /\ probe.llm = Text(FALSE, JObj(<< <<S_param, JStr(S_period)>>, <<S_value, JStr(V_3M)>> >>))
    /\ probe.result.calls = 1
    /\ probe.result.params = [k \in {S_period} |-> JStr(V_3M)]

\* The place of a stage in orchestrate_query.
StageRank(stage) ==
    CASE stage = "match"    -> 1
      [] stage = "extract"  -> 2
      [] stage = "merge"    -> 3
      [] stage = "filter"   -> 4
      [] stage = "validate" -> 5
      [] stage = "resolve"  -> 6
      [] stage = "missing"  -> 7
      [] stage = "invoke"   -> 8

LastStage == last.stages[Len(last.stages)]

---------------------------------------------------------------------------
(* call_api and the report orchestrate_query makes of its result, against  *)
(* each answer of the downstream API.                                      *)

\* The downstream API's answers: a failed request, and a 2xx answer with each JSON
\* value as its body.
ProbeHttp ==
    {HttpError(ERR_timeout), HttpError(ERR_bad_result)} \cup {HttpOk(x) : x \in ProbeJson}

\* orchestrator.py:381-387, given call_api's result: the message returned, or the
\* exception of '"error" in result' (a result that is None, a number or a bool) or of
\* result['error'] (a list or a str).
report_of(endpoint, result) ==
    IF result.t \notin {"obj", "list", "str"} THEN [raised |-> TRUE, msg |-> None]
    ELSE IF ~error_in(result)
    THEN [raised |-> FALSE, msg |-> Some(msg_api_ok(endpoint, result))]
    ELSE IF IsDict(result)
    THEN [raised |-> FALSE, msg |-> Some(msg_api_failed(result))]
    ELSE [raised |-> TRUE, msg |-> None]

probe_call_api ==
    /\ probe = NoProbe
    /\ \E endpoint \in {SharpeRatio, Returns}, params \in ProbeParams, http \in ProbeHttp :
         LET called == call_api(endpoint, params, http)
         IN  probe' = [op |-> "call_api", endpoint |-> endpoint, params |-> params,
                       http |-> http, result |-> called,
                       report |-> report_of(endpoint, called.value)]
    /\ UNCHANGED <<sessions, last, outcomes, turns, workers, heap>>

NextInvoke == probe_call_api

SpecInvoke == Init /\ [][NextInvoke]_vars

\* C24: call_api issues a GET with query parameters when the descriptor's method is
\* GET and a POST with a JSON body otherwise, and returns a failed request as an
\* {error: message} result; the turn is reported as a failed call exactly when
\* call_api's result is such an error, and as a success message otherwise.
C24_InvokerAndReport ==
    probe.op = "call_api" =>
        LET request == probe.result.request
            result == probe.result.value
            is_error == IsDict(result) /\ HasKey(result, S_error)
        IN  /\ IF probe.endpoint.method = S_GET
               THEN request.verb = "get" /\ request.params = Some(probe.params)
                    /\ request.json = None
               ELSE request.verb = "post" /\ request.json = Some(probe.params)
                    /\ request.params = None
            /\ ~probe.http.ok => result = ErrorResult(probe.http.error)
            /\ ~probe.report.raised
            /\ probe.report.msg =
                   IF is_error THEN Some(msg_api_failed(result))
                   ELSE Some(msg_api_ok(probe.endpoint, result))

\* The latest request found its session on an endpoint and left it on the same one,
\* without the session being reset.
SameEndpoint ==
    /\ last.outcome # "init"
    /\ ~last.created
    /\ ~last.session_cleared
    /\ last.entry.current_endpoint # None
    /\ last.state.current_endpoint = last.entry.current_endpoint

\* The elements of a list.
Elements(list) == {list[i] : i \in 1..Len(list)}

\* C25: slot accumulation is monotonic: over a turn that neither changes the current
\* endpoint nor resets the session the set of keys of state.params does not shrink,
\* so the list find_missing_params returns does not grow.
C25_SlotsMonotonic ==
    SameEndpoint =>
        /\ DOMAIN last.entry.params \subseteq DOMAIN last.state.params
        /\ Elements(find_missing_params(last.state.params, EndpointOf(last.state)))
               \subseteq
           Elements(find_missing_params(last.entry.params, EndpointOf(last.entry)))

\* The number of times the latest request ran a stage.
TimesRun(stage) == Cardinality({i \in 1..Len(last.stages) : last.stages[i] = stage})

\* C26: every turn of orchestrate_query that returns appends exactly two history
\* entries, the user's text and then one assistant entry whose content is the message
\* returned, and calls the endpoint at most once, on the abort paths and on the
\* invocation path alike.
C26_TwoEntriesPerTurn ==
    (Orchestrated /\ ~last.raised) =>
        /\ last.response # None
        /\ last.state.history =
               last.entry.history
               \o <<UserEntry, [role |-> "assistant", content |-> last.response[1]]>>
        /\ TimesRun("invoke") <= 1
        /\ TimesRun("invoke") = (IF last.request # None THEN 1 ELSE 0)

\* C26's cases: a turn that called the endpoint and one that stopped at an abort, each
\* on a session that already had a history.
C26_Witness ==
    /\ last.entry.history # <<>>
    /\ last.outcome = "api_ok"
    /\ last.previous = "missing"
    /\ Len(last.state.history) = Len(last.entry.history) + 2

====
